---- MODULE Spec2Model ----
(***************************************************************************)
(* A model of NLPproject.ipynb: a run-once script that fetches news for a  *)
(* ticker, scores every headline, merges the scores with a price series,   *)
(* builds lag / rolling features and fits a daily and an hourly model.     *)
(*                                                                         *)
(* Text is a sequence of one-character strings.  A score is an integer     *)
(* number of hundredths (0.1 is 10, 1 is 100).  A cell of a data frame is  *)
(* a rational [n, d] with d > 0, or NaN, the cell with d = 0.              *)
(***************************************************************************)
EXTENDS Integers, Sequences, FiniteSets, TLC

VARIABLES
    pc,                       \* the statement group the script is about to run
    status_code,              \* response.status_code
    printed,                  \* what the script has printed so far
    exit_code,                \* the process' exit status, -1 while it runs
    stages,                   \* the statement groups that have been executed
    articles,                 \* data['articles']
    news_df,
    daily_adjusted_sentiment,
    stock_data,
    merged_data,
    X_train, X_test,          \* row positions of merged_data
    merged_data_hourly,
    X_train_hourly, X_test_hourly,
    fn_pc, fn_arg, fn_ret     \* a single call of one function: its argument and result

scriptVars == <<pc, status_code, printed, exit_code, stages, articles, news_df,
                daily_adjusted_sentiment, stock_data, merged_data, X_train, X_test,
                merged_data_hourly, X_train_hourly, X_test_hourly>>
fnVars == <<fn_pc, fn_arg, fn_ret>>
vars == <<scriptVars, fnVars>>

-----------------------------------------------------------------------------
(* Bounds of the model.                                                    *)

\* pieces a headline given to clean_text is put together from
MaxPieces == 3
\* words of a text given to financial_sentiment_adjustment
MaxWords == 3
\* articles of a news response (pageSize allows 15)
MaxArticles == 7
\* responses of up to MaxVaried articles take every order of dates and every
\* mix of headlines; longer ones are ordered by date and repeat one headline
MaxVaried == 2
\* rows of a price column given to the rolling mean on its own
MaxRows == 8

-----------------------------------------------------------------------------
(* Characters and strings.                                                 *)

Whitespace == {" "}
LowerLetters == {"a", "b", "c", "e", "g", "h", "i", "l", "n", "o", "s", "t", "u"}
UpperLetters == {"G", "L", "T"}
Digits == {"7"}
\* \w of a Python 3 str pattern: letters, digits and the underscore
WordChars == LowerLetters \cup UpperLetters \cup Digits \cup {"_"}

\* str.lower, one character
LowerChar(c) ==
    CASE c = "G" -> "g"
      [] c = "L" -> "l"
      [] c = "T" -> "t"
      [] OTHER -> c

str_lower(s) == [i \in 1..Len(s) |-> LowerChar(s[i])]

RECURSIVE SplitFrom(_, _, _, _)
SplitFrom(s, i, cur, acc) ==
    IF i > Len(s)
    THEN IF cur = <<>> THEN acc ELSE Append(acc, cur)
    ELSE IF s[i] \in Whitespace
         THEN SplitFrom(s, i + 1, <<>>, IF cur = <<>> THEN acc ELSE Append(acc, cur))
         ELSE SplitFrom(s, i + 1, Append(cur, s[i]), acc)

\* str.split(): the maximal runs of non-whitespace characters
str_split(s) == SplitFrom(s, 1, <<>>, <<>>)

RECURSIVE str_join(_)
\* " ".join(words)
str_join(words) ==
    IF Len(words) = 0 THEN <<>>
    ELSE IF Len(words) = 1 THEN words[1]
    ELSE words[1] \o <<" ">> \o str_join(Tail(words))

RECURSIVE Concat(_)
Concat(parts) == IF parts = <<>> THEN <<>> ELSE Head(parts) \o Concat(Tail(parts))

-----------------------------------------------------------------------------
(* clean_text                                                              *)

\* stopwords.words('english'), the members that can be written with the
\* pieces of Headlines below
stop_words ==
    { <<"a">>, <<"t", "h", "e">>, <<"c", "a", "n">>, <<"n", "o", "t">>,
      <<"a", "g", "a", "i", "n">> }

KeepChar(c) == c \in WordChars \cup Whitespace

\* re.sub(r'[^\w\s]', '', text)
StripPunctuation(text) == SelectSeq(text, KeepChar)

\* The tokenizer's contraction rule \b(can)(not)\b; its other contractions
\* (gimme, gonna, gotta, lemme and those with an apostrophe) cannot be written
\* with the pieces of Headlines.
SplitContraction(word) ==
    IF word = <<"c", "a", "n", "n", "o", "t">>
    THEN << <<"c", "a", "n">>, <<"n", "o", "t">> >>
    ELSE << word >>

RECURSIVE ExpandWords(_)
ExpandWords(words) ==
    IF words = <<>> THEN <<>>
    ELSE SplitContraction(Head(words)) \o ExpandWords(Tail(words))

\* word_tokenize on a text of word characters and whitespace: no rule on
\* punctuation or quotes applies, what is left is the contraction rule and
\* the split on whitespace
word_tokenize(text) == ExpandWords(str_split(text))

NotStopWord(word) == word \notin stop_words

clean_text(text) ==
    LET lowered  == str_lower(text)
        stripped == StripPunctuation(lowered)
    IN  str_join(SelectSeq(word_tokenize(stripped), NotStopWord))

-----------------------------------------------------------------------------
(* financial_sentiment_adjustment                                          *)

\* 1 and 0.1 in hundredths
One == 100
Tenth == 10

\* The Loughran-McDonald word lists are read from a file outside the
\* repository; these are the lower-cased words of its Positive and Negative
\* columns that the texts of the model can contain.  "best" stands for a word
\* flagged in both columns.
lm_positive == { <<"g", "a", "i", "n">>, <<"b", "e", "s", "t">> }
lm_negative == { <<"l", "o", "s", "s">>, <<"b", "e", "s", "t">> }

RECURSIVE CountHitsBoth(_, _)
\* CountHits with two independent tests instead of if / elif
CountHitsBoth(words, acc) ==
    IF words = <<>> THEN acc
    ELSE CountHitsBoth(Tail(words),
            <<acc[1] + (IF Head(words) \in lm_positive THEN 1 ELSE 0),
              acc[2] + (IF Head(words) \in lm_negative THEN 1 ELSE 0)>>)

RECURSIVE CountHits(_, _)
\* the loop over words: <<pos_score, neg_score>>
CountHits(words, acc) ==
    IF words = <<>> THEN acc
    ELSE CountHits(Tail(words),
            IF Head(words) \in lm_positive THEN <<acc[1] + 1, acc[2]>>
            ELSE IF Head(words) \in lm_negative THEN <<acc[1], acc[2] + 1>>
            ELSE acc)

Max(a, b) == IF a >= b THEN a ELSE b
Min(a, b) == IF a <= b THEN a ELSE b

\* Clamp without its lower bound
ClampUpperOnly(adjusted) == Min(One, adjusted)

Clamp(adjusted) == Max(-One, Min(One, adjusted))

AdjustWords(text) == str_split(str_lower(text))

financial_sentiment_adjustment(text, sentiment_score) ==
    LET words == AdjustWords(text)
        hits  == CountHits(words, <<0, 0>>)
        adjusted == sentiment_score + (hits[1] - hits[2]) * Tenth
    IN  Clamp(adjusted)

-----------------------------------------------------------------------------
(* Single calls of the two text functions, on bounded inputs.              *)

ScriptIdle ==
    /\ pc = "idle"
    /\ status_code = 0
    /\ printed = <<>>
    /\ exit_code = -1
    /\ stages = {}
    /\ articles = <<>>
    /\ news_df = <<>>
    /\ daily_adjusted_sentiment = <<>>
    /\ stock_data = <<>>
    /\ merged_data = <<>>
    /\ X_train = {}
    /\ X_test = {}
    /\ merged_data_hourly = <<>>
    /\ X_train_hourly = <<>>
    /\ X_test_hourly = <<>>

FnIdle ==
    /\ fn_pc = "idle"
    /\ fn_arg = <<>>
    /\ fn_ret = <<>>

SeqsUpTo(S, n) == UNION { [1..k -> S] : k \in 0..n }

HeadlinePieces ==
    { <<"T", "h", "e">>, <<"a">>, <<"c", "a", "n", "n", "o", "t">>, <<"G", "a", "i", "n">>,
      <<"_">>, <<"!">>, <<" ">>, <<"7">> }

Headlines == { Concat(p) : p \in SeqsUpTo(HeadlinePieces, MaxPieces) }

InitClean ==
    /\ ScriptIdle
    /\ fn_pc = "call"
    /\ fn_arg \in Headlines
    /\ fn_ret = <<>>

CallCleanText ==
    /\ fn_pc = "call"
    /\ fn_ret' = clean_text(fn_arg)
    /\ fn_pc' = "returned"
    /\ UNCHANGED <<fn_arg, scriptVars>>

NextClean == CallCleanText

SpecClean == InitClean /\ [][NextClean]_vars

TextPieces ==
    { <<"g", "a", "i", "n", " ">>, <<"G", "a", "i", "n", " ">>, <<"l", "o", "s", "s", " ">>,
      <<"b", "e", "s", "t", " ">>, <<"s", "a", "l", "e", " ">>, <<"u", "n">> }

Texts == { Concat(p) : p \in SeqsUpTo(TextPieces, MaxWords) }

\* compound scores, in hundredths
SentimentScores == {-100, -95, -90, -50, -10, 0, 10, 50, 90, 95, 100}

InitAdjust ==
    /\ ScriptIdle
    /\ fn_pc = "call"
    /\ fn_arg \in [text : Texts, sentiment_score : SentimentScores]
    /\ fn_ret = 0

CallAdjustment ==
    /\ fn_pc = "call"
    /\ fn_ret' = financial_sentiment_adjustment(fn_arg.text, fn_arg.sentiment_score)
    /\ fn_pc' = "returned"
    /\ UNCHANGED <<fn_arg, scriptVars>>

NextAdjust == CallAdjustment

SpecAdjust == InitAdjust /\ [][NextAdjust]_vars

-----------------------------------------------------------------------------
(* Claims about the text functions.                                        *)

Returned == fn_pc = "returned"

SeqRange(q) == { q[i] : i \in 1..Len(q) }
Count(q, S) == Cardinality({ i \in 1..Len(q) : q[i] \in S })

\* C1: for a base score in [-1, 1] and any text, the adjusted score is in
\* [-1, 1]
C1_AdjustedInRange ==
    Returned => (fn_ret >= -100 /\ fn_ret <= 100)

\* the call where the sum leaves the interval at the top and is clamped to 1
C1_Witness ==
    /\ Returned
    /\ fn_arg.sentiment_score + Tenth * Count(str_split(fn_arg.text), lm_positive) > 100
    /\ Count(str_split(fn_arg.text), lm_negative) = 0
    /\ fn_ret = 100

\* the value the claim gives for the tokens `words`
ClaimedAdjustment(words, base) ==
    LET pos_count == Count(words, lm_positive)
        neg_count == Count(words, lm_negative \ lm_positive)
        sum == base + 10 * (pos_count - neg_count)
    IN  IF sum > 100 THEN 100 ELSE IF sum < -100 THEN -100 ELSE sum

LowerAlnum == (LowerLetters \cup Digits)

\* C8 as stated: clean_text returns lower-case letters, digits and single
\* separating spaces only, none of its tokens is a stop word, and the empty
\* headline gives the empty string
C8_AsStated ==
    Returned =>
        /\ \A i \in 1..Len(fn_ret) : fn_ret[i] \in LowerAlnum \cup {" "}
        /\ fn_ret # <<>> => (fn_ret[1] # " " /\ fn_ret[Len(fn_ret)] # " ")
        /\ \A i \in 1..(Len(fn_ret) - 1) : ~(fn_ret[i] = " " /\ fn_ret[i + 1] = " ")
        /\ \A w \in SeqRange(str_split(fn_ret)) : w \notin stop_words
        /\ fn_arg = <<>> => fn_ret = <<>>

-----------------------------------------------------------------------------
(* Cells and columns of a data frame.                                      *)

NaN == [n |-> 0, d |-> 0]
IsNaN(x) == x.d = 0

Abs(k) == IF k < 0 THEN -k ELSE k

RECURSIVE GCD(_, _)
GCD(a, b) == IF b = 0 THEN a ELSE GCD(b, a % b)

\* the rational n / d (d > 0) in lowest terms
Rat(n, d) == LET g == GCD(Abs(n), d) IN [n |-> n \div g, d |-> d \div g]
Cell(k) == [n |-> k, d |-> 1]

RAdd(a, b) == Rat(a.n * b.d + b.n * a.d, a.d * b.d)
RSub(a, b) == Rat(a.n * b.d - b.n * a.d, a.d * b.d)
RTimes(a, k) == Rat(a.n * k, a.d)
ROver(a, k) == Rat(a.n, a.d * k)

\* a > b as floats compare: False when either side is NaN
RGreater(a, b) == ~IsNaN(a) /\ ~IsNaN(b) /\ a.n * b.d > b.n * a.d

\* f as a tuple: TLC then computes the elements once, not at every use
Tuple(f) == f \o <<>>

Column(df, name) == Tuple([i \in 1..Len(df) |-> df[i][name]])

RECURSIVE SumCells(_)
SumCells(col) == IF col = <<>> THEN Cell(0) ELSE RAdd(Head(col), SumCells(Tail(col)))

Defined(x) == ~IsNaN(x)

\* mean(), which skips NaN; NaN when nothing is left
MeanCells(col) ==
    LET valid == SelectSeq(col, Defined)
    IN  IF valid = <<>> THEN NaN ELSE ROver(SumCells(valid), Len(valid))

SetMax(S) == CHOOSE x \in S : \A y \in S : y <= x
SetMin(S) == CHOOSE x \in S : \A y \in S : x <= y

\* Series.shift(1)
ShiftDown(col) == IF col = <<>> THEN <<>> ELSE <<NaN>> \o SubSeq(col, 1, Len(col) - 1)

\* Series.shift(-1)
ShiftUp(col) == IF col = <<>> THEN <<>> ELSE Tail(col) \o <<NaN>>

\* the rolling window of line 98
Window == 7

\* rolling(window, min_periods=1): the mean of what is there
RollingMeanMinPeriods1(col, window) ==
    Tuple([i \in 1..Len(col) |->
        LET from == IF i < window THEN 1 ELSE i - window + 1
        IN  ROver(SumCells(SubSeq(col, from, i)), i - from + 1)])

\* Series.rolling(window).mean(): NaN until `window` values are there
RollingMean(col, window) ==
    Tuple([i \in 1..Len(col) |->
        IF i < window \/ (\E j \in (i - window + 1)..i : IsNaN(col[j]))
        THEN NaN
        ELSE ROver(SumCells(SubSeq(col, i - window + 1, i)), window)])

RECURSIVE FillFrom(_, _, _)
FillFrom(col, i, last) ==
    IF i > Len(col) THEN <<>>
    ELSE LET v == IF IsNaN(col[i]) THEN last ELSE col[i]
         IN  <<v>> \o FillFrom(col, i + 1, v)

\* fillna(method='ffill'): the last valid value at or before each position
ForwardFill(col) == FillFrom(col, 1, NaN)

\* StandardScaler.fit_transform on one column: (x - mean) / std over the
\* valid cells.  The model keeps the numerator times the number of valid
\* cells, m * x - sum; the factor left out, 1 / (m * std), is one positive
\* number per column (std is replaced by 1 when it is 0), so which cells are
\* NaN, equal or larger than another is as in the script.
Standardize(col) ==
    LET valid == SelectSeq(col, Defined)
        total == SumCells(valid)
    IN  Tuple([i \in 1..Len(col) |->
            IF IsNaN(col[i]) THEN NaN ELSE RSub(RTimes(col[i], Len(valid)), total)])

-----------------------------------------------------------------------------
(* What the script gets from outside.                                      *)

StatusCodes == {200, 401, 429, 500}

\* days on which an article can be published
NewsDates == {1, 2, 3}

Titles == { <<"G", "a", "i", "n", "!">>, <<"T", "h", "e", " ", "l", "o", "s", "s">> }

Articles == [title : Titles, publishedAt : NewsDates]

Monotone(q) ==
    \/ \A i \in 1..(Len(q) - 1) : q[i] <= q[i + 1]
    \/ \A i \in 1..(Len(q) - 1) : q[i] >= q[i + 1]

LongResponses ==
    UNION { { [i \in 1..k |-> [title |-> t, publishedAt |-> q[i]]] :
                t \in Titles, q \in { r \in [1..k -> NewsDates] : Monotone(r) } } :
            k \in (MaxVaried + 1)..MaxArticles }

Responses == SeqsUpTo(Articles, MaxVaried) \cup LongResponses

\* compound scores the analyzer may give a non-empty text
VaderScores == {-40, 95}

\* yf.download: one row per trading day, oldest first.  Day 0 is before any
\* news; day 3 or day 2 may be a day without trading.
PriceSeries ==
    { << [Date |-> 0, Close |-> Cell(9)],  [Date |-> 1, Close |-> Cell(10)],
         [Date |-> 2, Close |-> Cell(12)], [Date |-> 3, Close |-> Cell(11)] >>,
      << [Date |-> 0, Close |-> Cell(13)], [Date |-> 1, Close |-> Cell(12)],
         [Date |-> 2, Close |-> Cell(10)] >>,
      << [Date |-> 0, Close |-> Cell(10)], [Date |-> 1, Close |-> Cell(10)],
         [Date |-> 3, Close |-> Cell(10)] >> }

-----------------------------------------------------------------------------
(* The script, one action per group of statements.                         *)

Init ==
    /\ pc = "request"
    /\ status_code = 0
    /\ printed = <<>>
    /\ exit_code = -1
    /\ stages = {}
    /\ articles = <<>>
    /\ news_df = <<>>
    /\ daily_adjusted_sentiment = <<>>
    /\ stock_data = <<>>
    /\ merged_data = <<>>
    /\ X_train = {}
    /\ X_test = {}
    /\ merged_data_hourly = <<>>
    /\ X_train_hourly = <<>>
    /\ X_test_hourly = <<>>
    /\ FnIdle

\* exit(): site.Quitter raises SystemExit(None), the process ends with status 0
ExitStatus == 0

\* an exception nobody catches: traceback, status 1
Crash ==
    /\ pc' = "crashed"
    /\ exit_code' = 1

\* lines 36-39
NewsRequest ==
    /\ pc = "request"
    /\ stages' = stages \cup {"request"}
    /\ \E code \in StatusCodes :
        /\ status_code' = code
        /\ IF code # 200
           THEN /\ printed' = Append(printed, "Failed to retrieve news:")
                /\ exit_code' = ExitStatus
                /\ pc' = "exited"
                /\ UNCHANGED articles
           ELSE /\ articles' \in Responses
                /\ pc' = "parse"
                /\ UNCHANGED <<printed, exit_code>>
    /\ UNCHANGED <<news_df, daily_adjusted_sentiment, stock_data, merged_data, X_train,
                   X_test, merged_data_hourly, X_train_hourly, X_test_hourly, fnVars>>

\* lines 42-44; a frame built from no article has no publishedAt column
ParseArticles ==
    /\ pc = "parse"
    /\ stages' = stages \cup {"parse"}
    /\ IF articles = <<>>
       THEN Crash /\ UNCHANGED news_df
       ELSE /\ news_df' = articles
            /\ pc' = "clean"
            /\ UNCHANGED exit_code
    /\ UNCHANGED <<status_code, printed, articles, daily_adjusted_sentiment, stock_data,
                   merged_data, X_train, X_test, merged_data_hourly, X_train_hourly,
                   X_test_hourly, fnVars>>

CleanedTitles == { clean_text(news_df[i].title) : i \in 1..Len(news_df) }

\* lines 47-61; sia.polarity_scores is the library's: some score for each
\* text, the same score for the same text, 0 for the empty text
CleanAndScore ==
    /\ pc = "clean"
    /\ stages' = stages \cup {"clean", "score"}
    /\ \E compound \in [CleanedTitles -> VaderScores] :
        /\ \A t \in CleanedTitles : t = <<>> => compound[t] = 0
        /\ news_df' = [i \in 1..Len(news_df) |->
                LET cleaned == clean_text(news_df[i].title)
                IN  [title |-> news_df[i].title,
                     publishedAt |-> news_df[i].publishedAt,
                     cleaned_title |-> cleaned,
                     sentiment |-> Cell(compound[cleaned])]]
    /\ pc' = "adjust"
    /\ UNCHANGED <<status_code, printed, exit_code, articles, daily_adjusted_sentiment,
                   stock_data, merged_data, X_train, X_test, merged_data_hourly,
                   X_train_hourly, X_test_hourly, fnVars>>

\* lines 64-81
AdjustSentiment ==
    /\ pc = "adjust"
    /\ stages' = stages \cup {"lexicon", "adjust"}
    /\ news_df' = [i \in 1..Len(news_df) |->
            [title |-> news_df[i].title,
             publishedAt |-> news_df[i].publishedAt,
             cleaned_title |-> news_df[i].cleaned_title,
             sentiment |-> news_df[i].sentiment,
             adjusted_sentiment |->
                Cell(financial_sentiment_adjustment(news_df[i].cleaned_title,
                                                    news_df[i].sentiment.n))]]
    /\ pc' = "aggregate"
    /\ UNCHANGED <<status_code, printed, exit_code, articles, daily_adjusted_sentiment,
                   stock_data, merged_data, X_train, X_test, merged_data_hourly,
                   X_train_hourly, X_test_hourly, fnVars>>

RECURSIVE SortedSeq(_)
\* the members of a set of numbers, ascending
SortedSeq(S) == IF S = {} THEN <<>> ELSE <<SetMin(S)>> \o SortedSeq(S \ {SetMin(S)})

RowsOn(df, key, value) == { i \in 1..Len(df) : df[i][key] = value }

RECURSIVE Pick(_, _)
\* the rows of df at the positions `at` (ascending)
Pick(df, at) == IF at = <<>> THEN <<>> ELSE <<df[Head(at)]>> \o Pick(df, Tail(at))

\* groupby('publishedAt')['adjusted_sentiment'].mean().reset_index()
GroupByDateMean(df) ==
    LET dates == SortedSeq({ df[i].publishedAt : i \in 1..Len(df) })
    IN  Tuple([k \in 1..Len(dates) |->
            [publishedAt |-> dates[k],
             adjusted_sentiment |->
                MeanCells(Column(Pick(df, SortedSeq(RowsOn(df, "publishedAt", dates[k]))),
                                 "adjusted_sentiment"))]])

\* line 84
Aggregate ==
    /\ pc = "aggregate"
    /\ stages' = stages \cup {"aggregate"}
    /\ daily_adjusted_sentiment' = GroupByDateMean(news_df)
    /\ pc' = "stock"
    /\ UNCHANGED <<status_code, printed, exit_code, articles, news_df, stock_data,
                   merged_data, X_train, X_test, merged_data_hourly, X_train_hourly,
                   X_test_hourly, fnVars>>

\* lines 87-89
LoadStock ==
    /\ pc = "stock"
    /\ stages' = stages \cup {"stock"}
    /\ stock_data' \in PriceSeries
    /\ pc' = "merge"
    /\ UNCHANGED <<status_code, printed, exit_code, articles, news_df,
                   daily_adjusted_sentiment, merged_data, X_train, X_test,
                   merged_data_hourly, X_train_hourly, X_test_hourly, fnVars>>

Joined(l, r) ==
    [title |-> l.title, publishedAt |-> l.publishedAt, cleaned_title |-> l.cleaned_title,
     sentiment |-> l.sentiment, adjusted_sentiment |-> l.adjusted_sentiment,
     Date |-> r.Date, Close |-> r.Close]

RECURSIVE MatchFrom(_, _, _)
\* the rows of `right` from position j on whose Date is the left row's date
MatchFrom(l, right, j) ==
    IF j > Len(right) THEN <<>>
    ELSE (IF right[j].Date = l.publishedAt THEN << Joined(l, right[j]) >> ELSE <<>>)
         \o MatchFrom(l, right, j + 1)

RECURSIVE LeftMerge(_, _)
\* how='left': a left row without a match is kept, with no Date and no Close
LeftMerge(left, right) ==
    IF left = <<>> THEN <<>>
    ELSE (IF MatchFrom(Head(left), right, 1) = <<>>
          THEN << Joined(Head(left), [Date |-> -1, Close |-> NaN]) >>
          ELSE MatchFrom(Head(left), right, 1))
         \o LeftMerge(Tail(left), right)

RECURSIVE InnerMerge(_, _)
\* pd.merge(left, right, left_on='publishedAt', right_on='Date', how='inner'):
\* the matching pairs, in the order of the left rows
InnerMerge(left, right) ==
    IF left = <<>> THEN <<>>
    ELSE MatchFrom(Head(left), right, 1) \o InnerMerge(Tail(left), right)

\* lines 92-93
Merge ==
    /\ pc = "merge"
    /\ stages' = stages \cup {"merge"}
    /\ merged_data' = InnerMerge(news_df, stock_data)
    /\ pc' = "features"
    /\ UNCHANGED <<status_code, printed, exit_code, articles, news_df,
                   daily_adjusted_sentiment, stock_data, X_train, X_test,
                   merged_data_hourly, X_train_hourly, X_test_hourly, fnVars>>

\* df with the column `name` set to `col`
WithColumn(df, name, col) == Tuple([i \in 1..Len(df) |-> (name :> col[i]) @@ df[i]])

RECURSIVE FillColumns(_, _)
\* DataFrame.fillna(method='ffill') on the columns that can hold NaN
FillColumns(df, names) ==
    IF names = {} THEN df
    ELSE LET c == CHOOSE x \in names : TRUE
         IN  FillColumns(WithColumn(df, c, ForwardFill(Column(df, c))), names \ {c})

\* lines 96-99
BuildFeatures(df) ==
    LET lagged == WithColumn(df, "lagged_sentiment",
                             ShiftDown(Column(df, "adjusted_sentiment")))
        rolled == WithColumn(lagged, "MA_7_day", RollingMean(Column(df, "Close"), Window))
    IN  FillColumns(rolled, {"sentiment", "adjusted_sentiment", "Close",
                             "lagged_sentiment", "MA_7_day"})

FeatureEngineering ==
    /\ pc = "features"
    /\ stages' = stages \cup {"features"}
    /\ merged_data' = BuildFeatures(merged_data)
    /\ pc' = "normalize"
    /\ UNCHANGED <<status_code, printed, exit_code, articles, news_df,
                   daily_adjusted_sentiment, stock_data, X_train, X_test,
                   merged_data_hourly, X_train_hourly, X_test_hourly, fnVars>>

RECURSIVE StandardizeColumns(_, _)
StandardizeColumns(df, names) ==
    IF names = {} THEN df
    ELSE LET c == CHOOSE x \in names : TRUE
         IN  StandardizeColumns(WithColumn(df, c, Standardize(Column(df, c))), names \ {c})

\* lines 102-105; StandardScaler refuses a frame without rows
Normalize ==
    /\ pc = "normalize"
    /\ stages' = stages \cup {"normalize"}
    /\ IF merged_data = <<>>
       THEN Crash /\ UNCHANGED merged_data
       ELSE /\ merged_data' = StandardizeColumns(merged_data,
                                    {"adjusted_sentiment", "Close", "MA_7_day"})
            /\ pc' = "ridge"
            /\ UNCHANGED exit_code
    /\ UNCHANGED <<status_code, printed, articles, news_df, daily_adjusted_sentiment,
                   stock_data, X_train, X_test, merged_data_hourly, X_train_hourly,
                   X_test_hourly, fnVars>>

\* test_size=0.2: the test part has ceil(0.2 * n) rows
TestSize(n) == (n + 4) \div 5

\* cv=5
Folds == 5

\* lines 108-138.  train_test_split shuffles with a seeded generator; which
\* rows land in the test part is the generator's, so any choice of the right
\* size is admitted.  Every row of merged_data is in X: missing cells are
\* filled in by the imputer, no row is left out.  The script stops at line 110
\* when the train part would be empty, at line 124 when it has fewer rows than
\* folds, and at line 131 when the imputer has dropped a column that is all
\* NaN in the train part.
RidgeRegression ==
    /\ pc = "ridge"
    /\ stages' = stages \cup {"ridge"}
    /\ LET n == Len(merged_data)
       IN  IF n - TestSize(n) = 0
           THEN Crash /\ UNCHANGED <<X_train, X_test, printed>>
           ELSE \E test \in { t \in SUBSET (1..n) : Cardinality(t) = TestSize(n) } :
                   /\ X_test' = test
                   /\ X_train' = (1..n) \ test
                   /\ IF n - TestSize(n) < Folds
                      THEN /\ Crash
                           /\ printed' = Append(printed, "Ridge R-squared:")
                      ELSE IF \A i \in (1..n) \ test : IsNaN(merged_data[i].MA_7_day)
                      THEN /\ Crash
                           /\ printed' = printed \o <<"Ridge R-squared:",
                                                      "Cross-Validation Scores:",
                                                      "Average Cross-Validation Score:">>
                      ELSE /\ printed' = printed \o <<"Ridge R-squared:",
                                                      "Cross-Validation Scores:",
                                                      "Average Cross-Validation Score:",
                                                      "Selected Features by RFE:",
                                                      "Final R-squared with selected features:">>
                           /\ pc' = "hourly"
                           /\ UNCHANGED exit_code
    /\ UNCHANGED <<status_code, articles, news_df, daily_adjusted_sentiment, stock_data,
                   merged_data, merged_data_hourly, X_train_hourly, X_test_hourly, fnVars>>

\* resample('H'): 24 buckets a day
HoursPerDay == 24

HourlyColumns == {"sentiment", "adjusted_sentiment", "Close", "lagged_sentiment", "MA_7_day"}

\* resample('H').mean(): one row per hour from the first to the last index
\* value, each numeric column the mean of the rows that fall into the hour
\* (the rows of a day fall into its hour 0), NaN for an hour without rows
ResampleHourlyMean(df) ==
    LET days  == { df[i].publishedAt : i \in 1..Len(df) }
        first == SetMin(days)
        count == HoursPerDay * (SetMax(days) - first) + 1
    IN  Tuple([k \in 1..count |->
            LET hour == k - 1
                rows == IF hour % HoursPerDay = 0
                        THEN Pick(df, SortedSeq(RowsOn(df, "publishedAt",
                                                       first + hour \div HoursPerDay)))
                        ELSE <<>>
            IN  [hour |-> hour,
                 sentiment |-> MeanCells(Column(rows, "sentiment")),
                 adjusted_sentiment |-> MeanCells(Column(rows, "adjusted_sentiment")),
                 Close |-> MeanCells(Column(rows, "Close")),
                 lagged_sentiment |-> MeanCells(Column(rows, "lagged_sentiment")),
                 MA_7_day |-> MeanCells(Column(rows, "MA_7_day"))]])

HasNaN(row) == \E f \in HourlyColumns \cup {"Movement"} : IsNaN(row[f])
NoNaN(row) == ~HasNaN(row)

\* the frame as it is: dropna left out
KeepAll(df) == df

\* dropna(): the rows without a NaN
DropNa(df) == SelectSeq(df, NoNaN)

\* (Close.shift(-1) > Close).astype(int)
MovementLabels(close) ==
    LET next == ShiftUp(close)
    IN  Tuple([i \in 1..Len(close) |->
            IF RGreater(next[i], close[i]) THEN Cell(1) ELSE Cell(0)])

\* lines 141-143
HourlyFrame(df) ==
    LET filled == FillColumns(ResampleHourlyMean(df), HourlyColumns)
        moved  == WithColumn(filled, "Movement", MovementLabels(Column(filled, "Close")))
    IN  WithColumn(moved, "lagged_sentiment",
                   ShiftDown(Column(moved, "adjusted_sentiment")))

\* int(len(X_hourly) * 0.8)
SplitIndex(n) == (n * 4) \div 5

\* lines 141-150
HourlyDataset ==
    /\ pc = "hourly"
    /\ stages' = stages \cup {"hourly"}
    /\ merged_data_hourly' = DropNa(HourlyFrame(merged_data))
    /\ X_train_hourly' = SubSeq(merged_data_hourly', 1, SplitIndex(Len(merged_data_hourly')))
    /\ X_test_hourly' = SubSeq(merged_data_hourly', SplitIndex(Len(merged_data_hourly')) + 1,
                               Len(merged_data_hourly'))
    /\ pc' = "hourly_fit"
    /\ UNCHANGED <<status_code, printed, exit_code, articles, news_df,
                   daily_adjusted_sentiment, stock_data, merged_data, X_train, X_test,
                   fnVars>>

\* lines 152-160; the imputer refuses a frame without rows and
\* LogisticRegression refuses labels of one class
HourlyFit ==
    /\ pc = "hourly_fit"
    /\ stages' = stages \cup {"hourly_fit"}
    /\ IF \/ X_train_hourly = <<>>
          \/ X_test_hourly = <<>>
          \/ Cardinality({ X_train_hourly[i].Movement : i \in 1..Len(X_train_hourly) }) < 2
       THEN Crash /\ UNCHANGED printed
       ELSE /\ printed' = printed \o <<"Hourly Logistic Regression Accuracy:",
                                       "Hourly Classification Report:">>
            /\ pc' = "plot"
            /\ UNCHANGED exit_code
    /\ UNCHANGED <<status_code, articles, news_df, daily_adjusted_sentiment, stock_data,
                   merged_data, X_train, X_test, merged_data_hourly, X_train_hourly,
                   X_test_hourly, fnVars>>

\* lines 163-171; the script ends
Plot ==
    /\ pc = "plot"
    /\ stages' = stages \cup {"plot"}
    /\ pc' = "done"
    /\ exit_code' = 0
    /\ UNCHANGED <<status_code, printed, articles, news_df, daily_adjusted_sentiment,
                   stock_data, merged_data, X_train, X_test, merged_data_hourly,
                   X_train_hourly, X_test_hourly, fnVars>>

Next ==
    \/ NewsRequest
    \/ ParseArticles
    \/ CleanAndScore
    \/ AdjustSentiment
    \/ Aggregate
    \/ LoadStock
    \/ Merge
    \/ FeatureEngineering
    \/ Normalize
    \/ RidgeRegression
    \/ HourlyDataset
    \/ HourlyFit
    \/ Plot

Spec == Init /\ [][Next]_vars

-----------------------------------------------------------------------------
(* The rolling mean and the fill on a price column of its own.             *)

Ramp(k) == [i \in 1..k |-> Cell(i)]

PriceColumns ==
    SeqsUpTo({Cell(10), Cell(12)}, MaxRows) \cup { Ramp(k) : k \in 0..MaxRows }

InitRolling ==
    /\ ScriptIdle
    /\ fn_pc = "call"
    /\ fn_arg \in PriceColumns
    /\ fn_ret = <<>>

\* lines 98-99 on the Close column
CallRolling ==
    /\ fn_pc = "call"
    /\ fn_ret' = ForwardFill(RollingMean(fn_arg, Window))
    /\ fn_pc' = "returned"
    /\ UNCHANGED <<fn_arg, scriptVars>>

NextRolling == CallRolling

SpecRolling == InitRolling /\ [][NextRolling]_vars

-----------------------------------------------------------------------------
(* Claims about the script.                                                *)

RECURSIVE IntSum(_, _, _)
\* the sum of the (whole) prices col[from..to]
IntSum(col, from, to) ==
    IF from > to THEN 0 ELSE col[from].n + IntSum(col, from + 1, to)

\* C7: position i (from 0) of rolling_mean_7 is undefined for i < 6, also
\* after the forward fill, and the mean of close[i-6..i] for i >= 6; close
\* 1..8 gives 4 at position 6 and 5 at position 7
C7_RollingMean ==
    Returned =>
        /\ Len(fn_ret) = Len(fn_arg)
        /\ \A k \in 1..Len(fn_ret) :
              IF k - 1 < 6
              THEN IsNaN(fn_ret[k])
              ELSE /\ ~IsNaN(fn_ret[k])
                   /\ fn_ret[k].n * 7 = IntSum(fn_arg, k - 6, k) * fn_ret[k].d
        /\ fn_arg = Ramp(8) => (fn_ret[7] = Cell(4) /\ fn_ret[8] = Cell(5))

C7_Witness ==
    /\ Returned
    /\ fn_arg = Ramp(8)
    /\ IsNaN(fn_ret[6])
    /\ fn_ret[7] = Cell(4)
    /\ fn_ret[8] = Cell(5)

Ran(stage) == stage \in stages

\* C3 as stated: a row kept in the hourly data set has Movement 1 exactly when
\* the next bucket's close is above its own, and the last bucket is never kept
C3_AsStated ==
    Ran("hourly") =>
        LET frame == HourlyFrame(merged_data)
        IN  \A k \in 1..Len(merged_data_hourly) :
                LET row == merged_data_hourly[k]
                IN  /\ row.hour + 1 < Len(frame)
                    /\ row.Movement = Cell(1)
                         <=> RGreater(frame[row.hour + 2].Close, frame[row.hour + 1].Close)

\* C4 as stated: after a status other than 200 the script has printed the
\* failure, has ended with a status other than 0 and has run nothing else
C4_AsStated ==
    (Ran("request") /\ status_code # 200) =>
        /\ pc = "exited"
        /\ printed = <<"Failed to retrieve news:">>
        /\ stages = {"request"}
        /\ exit_code # 0

NewsDays == { news_df[i].publishedAt : i \in 1..Len(news_df) }
PriceDays == { stock_data[i].Date : i \in 1..Len(stock_data) }

\* C5 as stated: the merged frame has one row per date, with the mean
\* adjusted sentiment of the date's articles
C5_AsStated ==
    pc = "features" =>
        /\ \A i, j \in 1..Len(merged_data) :
              merged_data[i].publishedAt = merged_data[j].publishedAt => i = j
        /\ \A i \in 1..Len(merged_data) :
              \E k \in 1..Len(daily_adjusted_sentiment) :
                  /\ daily_adjusted_sentiment[k].publishedAt = merged_data[i].publishedAt
                  /\ daily_adjusted_sentiment[k].adjusted_sentiment
                        = merged_data[i].adjusted_sentiment

\* C6: every merged row has a date that is in the news frame and in the
\* price series, and carries that day's close
C6_InnerJoin ==
    Ran("merge") =>
        \A i \in 1..Len(merged_data) :
            /\ merged_data[i].publishedAt \in NewsDays
            /\ merged_data[i].publishedAt \in PriceDays
            /\ \E k \in 1..Len(stock_data) :
                  /\ stock_data[k].Date = merged_data[i].publishedAt
                  /\ pc = "features" => stock_data[k].Close = merged_data[i].Close

\* a merge with rows, a day with news and no price, a day with a price and
\* no news
C6_Witness ==
    /\ pc = "features"
    /\ merged_data # <<>>
    /\ NewsDays \ PriceDays # {}
    /\ PriceDays \ NewsDays # {}

C10_AsStated ==
    pc = "normalize" =>
        /\ \A t \in 2..Len(merged_data) :
              /\ merged_data[t - 1].publishedAt <= merged_data[t].publishedAt
              /\ merged_data[t].lagged_sentiment = merged_data[t - 1].adjusted_sentiment
        /\ merged_data # <<>> => IsNaN(merged_data[1].lagged_sentiment)

====
